---------------------------- MODULE Spec2Model ----------------------------
(***************************************************************************)
(* Model of the Data Playground page (app/src/pages/01_Playground.py):     *)
(* the synthetic curve generator, the four backend client functions and    *)
(* the Streamlit script that runs once per user event over the session     *)
(* state.                                                                  *)
(*                                                                         *)
(* Numbers.  Range bounds are floats with integral values, kept as         *)
(* integers.  A curve of `steps` points is kept in exact rational form     *)
(* over the common denominator Den(steps): x_values[i] is the numerator    *)
(* of x over Den(steps), y_values[i] the numerator of y over               *)
(* 1000 * Den(steps).  Slopes and noise are in thousandths.                *)
(***************************************************************************)
EXTENDS Integers, Sequences, FiniteSets, TLC

VARIABLES
    \* st.session_state of one browser session
    authenticated, UserID, graph_data, available_features, loaded_graph,
    selected_preset,
    \* what the browser shows: the page, and the buttons its last run drew
    page, rendered,
    \* st.cache_data entries of the two cached client functions
    featuresCache, savedCache,
    \* what the last script run did (requests, generator calls, messages)
    run,
    \* numpy's global random state
    rng, draws,
    \* direct calls of generate_fake_gini_data: the last one and an earlier one
    genLast, genRef,
    \* one invocation of a backend client function, request by request
    apiPc, apiFn, apiReqs, outstanding, apiResult,
    \* the class of the error response.json() raises in this build
    requestsJsonError

vars == <<authenticated, UserID, graph_data, available_features, loaded_graph,
          selected_preset, page, rendered, featuresCache, savedCache, run,
          rng, draws, genLast, genRef,
          apiPc, apiFn, apiReqs, outstanding, apiResult, requestsJsonError>>

sessionVars == <<authenticated, UserID, graph_data, available_features,
                 loaded_graph, selected_preset, page, rendered, run>>
cacheVars == <<featuresCache, savedCache>>
genVars == <<genLast, genRef>>
apiVars == <<apiPc, apiFn, apiReqs, outstanding, apiResult>>

\* Python's None, and an optional value as a sequence of at most one element.
None == <<>>
Some(v) == <<v>>
IsNone(o) == o = <<>>
Get(o) == o[1]

Max(a, b) == IF a >= b THEN a ELSE b
Min(a, b) == IF a <= b THEN a ELSE b

(***************************************************************************)
(* Strings.  A name is a TLA+ string; NameChars gives its characters, so   *)
(* that Python's `in` (substring) and the f-string of the seed can be      *)
(* computed on it.                                                         *)
(***************************************************************************)
NameChars ==
       ("Population" :> <<"P", "o", "p", "u", "l", "a", "t", "i", "o", "n">>)
    @@ ("GDP per capita" :> <<"G", "D", "P", " ", "p", "e", "r", " ", "c", "a", "p", "i", "t", "a">>)
    @@ ("Trade union density" :> <<"T", "r", "a", "d", "e", " ", "u", "n", "i", "o", "n", " ", "d", "e", "n", "s", "i", "t", "y">>)
    @@ ("Unemployment rate" :> <<"U", "n", "e", "m", "p", "l", "o", "y", "m", "e", "n", "t", " ", "r", "a", "t", "e">>)
    @@ ("Health" :> <<"H", "e", "a", "l", "t", "h">>)
    @@ ("Education" :> <<"E", "d", "u", "c", "a", "t", "i", "o", "n">>)
    @@ ("Housing" :> <<"H", "o", "u", "s", "i", "n", "g">>)
    @@ ("Community development" :> <<"C", "o", "m", "m", "u", "n", "i", "t", "y", " ", "d", "e", "v", "e", "l", "o", "p", "m", "e", "n", "t">>)
    @@ ("Productivity" :> <<"P", "r", "o", "d", "u", "c", "t", "i", "v", "i", "t", "y">>)
    @@ ("Real interest rates" :> <<"R", "e", "a", "l", " ", "i", "n", "t", "e", "r", "e", "s", "t", " ", "r", "a", "t", "e", "s">>)
    @@ ("Corporate tax rate" :> <<"C", "o", "r", "p", "o", "r", "a", "t", "e", " ", "t", "a", "x", " ", "r", "a", "t", "e">>)
    @@ ("Inflation" :> <<"I", "n", "f", "l", "a", "t", "i", "o", "n">>)
    @@ ("Personal/property tax" :> <<"P", "e", "r", "s", "o", "n", "a", "l", "/", "p", "r", "o", "p", "e", "r", "t", "y", " ", "t", "a", "x">>)
    @@ ("IRLT" :> <<"I", "R", "L", "T">>)
    @@ ("GDP_per_capita" :> <<"G", "D", "P", "_", "p", "e", "r", "_", "c", "a", "p", "i", "t", "a">>)
    @@ ("Trade_union_density" :> <<"T", "r", "a", "d", "e", "_", "u", "n", "i", "o", "n", "_", "d", "e", "n", "s", "i", "t", "y">>)
    @@ ("Unemployment_rate" :> <<"U", "n", "e", "m", "p", "l", "o", "y", "m", "e", "n", "t", "_", "r", "a", "t", "e">>)
    @@ ("Community_development" :> <<"C", "o", "m", "m", "u", "n", "i", "t", "y", "_", "d", "e", "v", "e", "l", "o", "p", "m", "e", "n", "t">>)
    @@ ("Real_interest_rates" :> <<"R", "e", "a", "l", "_", "i", "n", "t", "e", "r", "e", "s", "t", "_", "r", "a", "t", "e", "s">>)
    @@ ("Corporate_tax_rate" :> <<"C", "o", "r", "p", "o", "r", "a", "t", "e", "_", "t", "a", "x", "_", "r", "a", "t", "e">>)
    @@ ("Personal_property_tax" :> <<"P", "e", "r", "s", "o", "n", "a", "l", "_", "p", "r", "o", "p", "e", "r", "t", "y", "_", "t", "a", "x">>)
    @@ ("Health GDP" :> <<"H", "e", "a", "l", "t", "h", " ", "G", "D", "P">>)
    @@ ("Unemployment capita" :> <<"U", "n", "e", "m", "p", "l", "o", "y", "m", "e", "n", "t", " ", "c", "a", "p", "i", "t", "a">>)
    @@ ("Education Unemployment" :> <<"E", "d", "u", "c", "a", "t", "i", "o", "n", " ", "U", "n", "e", "m", "p", "l", "o", "y", "m", "e", "n", "t">>)
    @@ ("gdp per CAPITA" :> <<"g", "d", "p", " ", "p", "e", "r", " ", "C", "A", "P", "I", "T", "A">>)
    @@ ("Gini_index" :> <<"G", "i", "n", "i", "_", "i", "n", "d", "e", "x">>)

CharCode ==
       (" " :> 32)
    @@ ("-" :> 45)
    @@ ("." :> 46)
    @@ ("/" :> 47)
    @@ ("0" :> 48)
    @@ ("1" :> 49)
    @@ ("2" :> 50)
    @@ ("3" :> 51)
    @@ ("4" :> 52)
    @@ ("5" :> 53)
    @@ ("6" :> 54)
    @@ ("7" :> 55)
    @@ ("8" :> 56)
    @@ ("9" :> 57)
    @@ ("A" :> 65)
    @@ ("C" :> 67)
    @@ ("D" :> 68)
    @@ ("E" :> 69)
    @@ ("G" :> 71)
    @@ ("H" :> 72)
    @@ ("I" :> 73)
    @@ ("L" :> 76)
    @@ ("P" :> 80)
    @@ ("R" :> 82)
    @@ ("T" :> 84)
    @@ ("U" :> 85)
    @@ ("_" :> 95)
    @@ ("a" :> 97)
    @@ ("c" :> 99)
    @@ ("d" :> 100)
    @@ ("e" :> 101)
    @@ ("f" :> 102)
    @@ ("g" :> 103)
    @@ ("h" :> 104)
    @@ ("i" :> 105)
    @@ ("l" :> 108)
    @@ ("m" :> 109)
    @@ ("n" :> 110)
    @@ ("o" :> 111)
    @@ ("p" :> 112)
    @@ ("r" :> 114)
    @@ ("s" :> 115)
    @@ ("t" :> 116)
    @@ ("u" :> 117)
    @@ ("v" :> 118)
    @@ ("x" :> 120)
    @@ ("y" :> 121)

\* Python's `sub in s` on strings: sub occurs in s as a contiguous run.
Contains(s, sub) ==
    \E i \in 0..(Len(s) - Len(sub)) : SubSeq(s, i + 1, i + Len(sub)) = sub

\* `word in feature_name`
NameHas(feature_name, word) == Contains(NameChars[feature_name], word)

Digit == <<"0", "1", "2", "3", "4", "5", "6", "7", "8", "9">>

RECURSIVE NatStr(_)
NatStr(n) ==
    IF n < 10 THEN <<Digit[n + 1]>>
    ELSE NatStr(n \div 10) \o <<Digit[(n % 10) + 1]>>

\* str() of a Python int
IntStr(n) == IF n < 0 THEN <<"-">> \o NatStr(-n) ELSE NatStr(n)

\* str() of a Python float of integral value: 0.0, 100.0, -5.0
FloatStr(n) == IntStr(n) \o <<".", "0">>

(***************************************************************************)
(* generate_fake_gini_data                                                 *)
(***************************************************************************)

\* f"{feature_name}_{x_min}_{x_max}_{steps}"
SeedString(feature_name, x_min, x_max, steps) ==
    NameChars[feature_name] \o <<"_">> \o FloatStr(x_min) \o <<"_">>
        \o FloatStr(x_max) \o <<"_">> \o IntStr(steps)

\* The digest prefix int(md5(s).hexdigest()[:8], 16): a deterministic function
\* of the characters of s.  md5 is stood in for by a polynomial hash, and the
\* 32-bit prefix by a 16-bit one.
DigestWidth == 65536

RECURSIVE Md5Prefix(_)
Md5Prefix(s) ==
    IF s = <<>> THEN 7
    ELSE (Md5Prefix(SubSeq(s, 1, Len(s) - 1)) * 131 + CharCode[s[Len(s)]])
             % DigestWidth

\* The modulus of the seed: half the digest prefix's range (2**31 of 2**32).
SeedModulus == 32768

Seed(feature_name, x_min, x_max, steps) ==
    Md5Prefix(SeedString(feature_name, x_min, x_max, steps)) % SeedModulus

\* The states numpy's global generator can be in.
RngModulus == 65537

\* np.random.seed(seed): the state after seeding depends on the seed alone.
SeedState_skipped(rngState, seed) == rngState

SeedState(rngState, seed) == seed % RngModulus

\* One step of the generator.
RngNext(s) == (s * 75 + 74) % RngModulus

\* The sample a state yields, in thousandths: mean 0, mostly within a few
\* hundredths, with rare far tails (a normal sample is unbounded).
NormalSample(s) ==
    LET v == s % 23
    IN  CASE v = 0 -> -400
          [] v = 22 -> 400
          [] OTHER -> (v - 11) * 5

\* np.random.normal(0, 0.02, n) from state s: the n samples and the state left.
RECURSIVE NormalDraws(_, _)
NormalDraws(s, n) ==
    IF n <= 0 THEN [vals |-> <<>>, state |-> s]
    ELSE LET rest == NormalDraws(s, n - 1)
             nxt == RngNext(rest.state)
         IN  [vals |-> Append(rest.vals, NormalSample(nxt)), state |-> nxt]

\* np.random.seed(None): the generator is left unseeded, and takes its state
\* afresh from the system's entropy when it is next drawn from.
Unseeded == -1
EntropyStates == {3, 40000}

\* The state a draw starts from, `entropy` being what the system supplies.
Resolve(rngState, entropy) == IF rngState = Unseeded THEN entropy ELSE rngState

\* Common denominator of the points of a curve of `steps` points.
Den(steps) == IF steps > 1 THEN steps - 1 ELSE 1

\* np.linspace(x_min, x_max, steps): steps points, the first x_min, spaced by
\* (x_max - x_min) / (steps - 1); a single point is x_min.  Numerators over
\* Den(steps).
Linspace_noEndpoint(x_min, x_max, steps) ==
    [i \in 1..Max(steps, 0) |->
        ((x_min * steps + (i - 1) * (x_max - x_min)) * Den(steps))
            \div Max(steps, 1)]

Linspace(x_min, x_max, steps) ==
    [i \in 1..Max(steps, 0) |-> x_min * Den(steps) + (i - 1) * (x_max - x_min)]

\* The value of 0/0 in float arithmetic, which np.clip leaves as it is.
NaN == -1000000

base_gini == 350

\* The slope of the branch taken at lines 167-178, in thousandths.
SlopeFor_unemploymentFirst(feature_name) ==
    IF NameHas(feature_name, <<"U","n","e","m","p","l","o","y","m","e","n","t">>)
    THEN 120
    ELSE IF NameHas(feature_name, <<"G","D","P">>)
            \/ NameHas(feature_name, <<"c","a","p","i","t","a">>)
    THEN -150
    ELSE IF NameHas(feature_name, <<"E","d","u","c","a","t","i","o","n">>)
            \/ NameHas(feature_name, <<"H","e","a","l","t","h">>)
    THEN -100
    ELSE 80

SlopeFor(feature_name) ==
    IF NameHas(feature_name, <<"G","D","P">>)
       \/ NameHas(feature_name, <<"c","a","p","i","t","a">>)
    THEN -150
    ELSE IF NameHas(feature_name, <<"U","n","e","m","p","l","o","y","m","e","n","t">>)
    THEN 120
    ELSE IF NameHas(feature_name, <<"E","d","u","c","a","t","i","o","n">>)
            \/ NameHas(feature_name, <<"H","e","a","l","t","h">>)
    THEN -100
    ELSE 80

\* base_gini +/- (x_values - x_min) / (x_max - x_min) * slope + noise, as a
\* numerator over 1000 * Den(steps); x is a numerator over Den(steps).
RawY(x, noise, slope, x_min, x_max, steps) ==
    IF x_max = x_min THEN NaN
    ELSE base_gini * Den(steps)
         + (slope * (x - x_min * Den(steps))) \div (x_max - x_min)
         + noise * Den(steps)

\* np.clip(y, 0.2, 0.6)
Clip_none(y, steps) == y

Clip(y, steps) ==
    IF y = NaN THEN NaN
    ELSE Max(200 * Den(steps), Min(600 * Den(steps), y))

\* The whole function, run with the global generator in state rngState: what
\* it returns (x_values, y_values) and, for the record, the seed, the noise
\* and the values before clipping.
generate_fake_gini_data(rngState, feature_name, x_min, x_max, steps) ==
    LET seed == Seed(feature_name, x_min, x_max, steps)
        x_values == Linspace(x_min, x_max, steps)
        drawn == NormalDraws(SeedState(rngState, seed), Len(x_values))
        noise == drawn.vals
        slope == SlopeFor(feature_name)
        raw == [i \in 1..Len(x_values) |->
                   RawY(x_values[i], noise[i], slope, x_min, x_max, steps)]
    IN  [x_values |-> x_values,
         y_values |-> [i \in 1..Len(raw) |-> Clip(raw[i], steps)],
         seed |-> seed, noise |-> noise, raw |-> raw]

(***************************************************************************)
(* The feature catalog and the presets                                     *)
(***************************************************************************)

\* The keys of FEATURE_MAPPING, in the order the dict literal gives them.
FeatureDisplayNames ==
    <<"Population", "GDP per capita", "Trade union density",
      "Unemployment rate", "Health", "Education", "Housing",
      "Community development", "Productivity", "Real interest rates",
      "Corporate tax rate", "Inflation", "Personal/property tax", "IRLT">>

\* The values of FEATURE_MAPPING, in the same order.
FeatureBackendNames ==
    <<"Population", "GDP_per_capita", "Trade_union_density",
      "Unemployment_rate", "Health", "Education", "Housing",
      "Community_development", "Productivity", "Real_interest_rates",
      "Corporate_tax_rate", "Inflation", "Personal_property_tax", "IRLT">>

Range(s) == {s[i] : i \in DOMAIN s}

\* `key in FEATURE_MAPPING`
InFeatureMapping(key) == key \in Range(FeatureDisplayNames)

\* FEATURE_MAPPING[key], for a key of the dict
FEATURE_MAPPING(key) ==
    FeatureBackendNames[CHOOSE i \in DOMAIN FeatureDisplayNames :
                            FeatureDisplayNames[i] = key]

\* backend_to_display = {v: k for k, v in FEATURE_MAPPING.items()}, then
\* backend_to_display.get(name, name)
BackendToDisplay(name) ==
    IF name \in Range(FeatureBackendNames)
    THEN FeatureDisplayNames[CHOOSE i \in DOMAIN FeatureBackendNames :
                                 FeatureBackendNames[i] = name]
    ELSE name

\* list(FEATURE_MAPPING.keys())
FallbackFeatures_reversed ==
    [i \in DOMAIN FeatureDisplayNames |->
        FeatureDisplayNames[Len(FeatureDisplayNames) + 1 - i]]

FallbackFeatures == FeatureDisplayNames

(***************************************************************************)
(* The backend, as the client sees it: the outcome of one HTTP request.    *)
(* kind is "timeout", "connection" (both RequestExceptions raised by       *)
(* requests.get/post) or "response"; a response has a status and a body,   *)
(* which is JSON (json = TRUE, its content in data) or not.                *)
(***************************************************************************)
Timeout == [kind |-> "timeout", status |-> 0, json |-> FALSE, data |-> None]
ConnectionError ==
    [kind |-> "connection", status |-> 0, json |-> FALSE, data |-> None]
Response(status, data) ==
    [kind |-> "response", status |-> status, json |-> TRUE, data |-> data]
NotJsonResponse(status) ==
    [kind |-> "response", status |-> status, json |-> FALSE, data |-> None]

Statuses == {200, 201, 404, 500}

\* What response.json() raises on a body that is not JSON: requests'
\* JSONDecodeError, which is a RequestException from requests 2.27 on and a
\* plain ValueError before.  The build fixes which.
JsonErrorClasses == {"RequestException", "ValueError"}

\* Bodies of GET /playground/features: {"features": [...]}; data is the value
\* of "features", None when the key is missing.
FeatureLists == {<<>>, <<"Unemployment_rate", "Gini_index", "Health">>}

FeaturesBodies == {Some(l) : l \in FeatureLists} \cup {None}

FeaturesOutcomes ==
    {Timeout, ConnectionError}
        \cup {Response(s, b) : s \in {200, 500}, b \in FeaturesBodies}
        \cup {NotJsonResponse(s) : s \in {200, 404}}

\* Saved graph records as GET /playground/saved/{user_id} lists them.
GraphA ==
    [name |-> "Growth", date_saved |-> Some("2025-06-12"),
     x_axis |-> "Unemployment_rate", x_min |-> 10, x_max |-> 50,
     x_steps |-> 5,
     features |-> Some([k \in {"Population", "Health"} |->
                           IF k = "Population" THEN "1000" ELSE "9.1"])]

GraphB ==
    [name |-> "Draft", date_saved |-> None,
     x_axis |-> "Gini_index", x_min |-> 50, x_max |-> 10, x_steps |-> 3,
     features |-> None]

SavedLists == {<<>>, <<GraphB, GraphA>>}

SavedBodies == {Some(l) : l \in SavedLists} \cup {None}

SavedOutcomes ==
    {Timeout, ConnectionError}
        \cup {Response(s, b) : s \in {200, 404}, b \in SavedBodies}
        \cup {NotJsonResponse(s) : s \in {200, 500}}

GraphOutcomes ==
    {Timeout, ConnectionError}
        \cup {Response(s, Some(g)) : s \in {200, 404}, g \in {GraphA, GraphB}}
        \cup {NotJsonResponse(s) : s \in {200, 500}}

\* Bodies of POST /playground/save: a JSON object, with or without "error".
SaveBodies == {[error |-> None], [error |-> Some("Graph name already exists")]}

SaveOutcomes ==
    {Timeout, ConnectionError}
        \cup {Response(s, Some(b)) : s \in Statuses, b \in SaveBodies}
        \cup {NotJsonResponse(s) : s \in {201, 500}}

\* str(e) of the exception a failed request raises
ErrorText(outcome) ==
    CASE outcome.kind = "timeout" -> "Read timed out"
      [] outcome.kind = "connection" -> "Connection refused"
      [] OTHER -> "Expecting value: line 1 column 1 (char 0)"

(***************************************************************************)
(* The four client functions, as functions of the request's outcome.       *)
(* raised is None when the function returns, else the exception it lets    *)
(* through.                                                                *)
(***************************************************************************)

fetch_available_features(outcome, jsonError) ==
    IF outcome.kind # "response"
    THEN [raised |-> None, value |-> None]
    ELSE IF outcome.status = 200
    THEN IF outcome.json
         THEN [raised |-> None,
               value |-> IF IsNone(outcome.data) THEN Some(<<>>)
                         ELSE outcome.data]
         ELSE IF jsonError = "RequestException"
         THEN [raised |-> None, value |-> None]
         ELSE [raised |-> Some("ValueError"), value |-> None]
    ELSE [raised |-> None, value |-> None]

save_graph_to_backend(outcome, jsonError) ==
    IF outcome.kind # "response"
    THEN [raised |-> None, success |-> FALSE,
          payload |-> [error |-> Some(ErrorText(outcome))]]
    ELSE IF outcome.json
    THEN [raised |-> None, success |-> (outcome.status = 201),
          payload |-> Get(outcome.data)]
    ELSE IF jsonError = "RequestException"
    THEN [raised |-> None, success |-> FALSE,
          payload |-> [error |-> Some(ErrorText(outcome))]]
    ELSE [raised |-> Some("ValueError"), success |-> FALSE,
          payload |-> [error |-> None]]

fetch_saved_graphs(outcome, jsonError) ==
    IF outcome.kind # "response"
    THEN [raised |-> None, value |-> <<>>]
    ELSE IF outcome.status = 200
    THEN IF outcome.json
         THEN [raised |-> None,
               value |-> IF IsNone(outcome.data) THEN <<>>
                         ELSE Get(outcome.data)]
         ELSE IF jsonError = "RequestException"
         THEN [raised |-> None, value |-> <<>>]
         ELSE [raised |-> Some("ValueError"), value |-> <<>>]
    ELSE [raised |-> None, value |-> <<>>]

load_graph_from_backend_anyStatus(outcome, jsonError) ==
    IF outcome.kind # "response"
    THEN [raised |-> None, value |-> None]
    ELSE IF outcome.json
    THEN [raised |-> None, value |-> outcome.data]
    ELSE [raised |-> None, value |-> None]

load_graph_from_backend(outcome, jsonError) ==
    IF outcome.kind # "response"
    THEN [raised |-> None, value |-> None]
    ELSE IF outcome.status = 200
    THEN IF outcome.json
         THEN [raised |-> None, value |-> outcome.data]
         ELSE IF jsonError = "RequestException"
         THEN [raised |-> None, value |-> None]
         ELSE [raised |-> Some("ValueError"), value |-> None]
    ELSE [raised |-> None, value |-> None]

(***************************************************************************)
(* Direct calls of the generator, with other users of numpy's global       *)
(* random state in between.                                                *)
(***************************************************************************)
MaxSteps == 3
MaxDraws == 1

GenNames ==
    {"GDP per capita", "Health", "Health GDP", "Unemployment capita",
     "Education Unemployment", "gdp per CAPITA"}
\* (x_min, x_max): a proper range, an inverted one and a zero-width one
GenRanges == {<<0, 10>>, <<50, 10>>, <<50, 50>>}
GenSteps == 1..MaxSteps
\* The names whose calls are kept as the earlier call of a pair of calls.
RefNames == {"GDP per capita"}

GenArgs(feature_name, x_min, x_max, steps) ==
    [feature_name |-> feature_name, x_min |-> x_min, x_max |-> x_max,
     steps |-> steps]

\* One call generate_fake_gini_data(feature_name, x_min, x_max, steps); its
\* last statement, np.random.seed(None), leaves a fresh state behind.
GenCall(feature_name, x_min, x_max, steps) ==
    /\ genLast' = Some([args |-> GenArgs(feature_name, x_min, x_max, steps),
                        out |-> generate_fake_gini_data(rng, feature_name,
                                                        x_min, x_max, steps)])
    /\ genRef' \in {genRef} \cup
                     {g \in {genLast} :
                         ~IsNone(g) /\ Get(g).args.feature_name \in RefNames}
    /\ rng' = Unseeded
    /\ draws' = 0
    /\ UNCHANGED <<sessionVars, cacheVars, apiVars, requestsJsonError>>

\* Some other code draws from numpy's global generator.
UnrelatedDraw ==
    /\ draws < MaxDraws
    /\ \E entropy \in EntropyStates : rng' = RngNext(Resolve(rng, entropy))
    /\ draws' = draws + 1
    /\ UNCHANGED <<genVars, sessionVars, cacheVars, apiVars, requestsJsonError>>

(***************************************************************************)
(* One invocation of a client function at a time, as the single-threaded   *)
(* script makes them: the call issues its request and blocks, the outcome  *)
(* arrives, the function returns.                                          *)
(***************************************************************************)
ApiFunctions ==
    {"fetch_available_features", "save_graph_to_backend",
     "fetch_saved_graphs", "load_graph_from_backend"}

OutcomesOf(fn) ==
    CASE fn = "fetch_available_features" -> FeaturesOutcomes
      [] fn = "save_graph_to_backend" -> SaveOutcomes
      [] fn = "fetch_saved_graphs" -> SavedOutcomes
      [] OTHER -> GraphOutcomes

ResultOf(fn, outcome, jsonError) ==
    CASE fn = "fetch_available_features" ->
             fetch_available_features(outcome, jsonError)
      [] fn = "save_graph_to_backend" -> save_graph_to_backend(outcome, jsonError)
      [] fn = "fetch_saved_graphs" -> fetch_saved_graphs(outcome, jsonError)
      [] OTHER -> load_graph_from_backend(outcome, jsonError)

\* @st.cache_data: the entry a call finds, None when there is none.
CacheEntry(fn) ==
    CASE fn = "fetch_available_features" -> featuresCache
      [] fn = "fetch_saved_graphs" -> savedCache
      [] OTHER -> None

\* Whether the function issues another request after this outcome: every
\* branch of every function returns.
RetryAfter_onTimeout(fn, outcome) == outcome.kind = "timeout"

RetryAfter(fn, outcome) == FALSE

NoOutcome == [kind |-> "none", status |-> 0, json |-> FALSE, data |-> None]

ApiCall(fn) ==
    /\ apiPc = "idle"
    /\ apiFn' = fn
    /\ IF ~IsNone(CacheEntry(fn))
       THEN /\ apiPc' = "returned"
            /\ apiReqs' = 0
            /\ apiResult' = [outcome |-> NoOutcome,
                             result |-> [raised |-> None,
                                         value |-> Get(CacheEntry(fn))]]
            /\ UNCHANGED outstanding
       ELSE /\ apiPc' = "waiting"
            /\ apiReqs' = 1
            /\ outstanding' = outstanding + 1
            /\ UNCHANGED apiResult
    /\ UNCHANGED <<sessionVars, cacheVars, genVars, rng, draws, requestsJsonError>>

ApiRespond(outcome) ==
    /\ apiPc = "waiting"
    /\ outcome \in OutcomesOf(apiFn)
    /\ IF RetryAfter(apiFn, outcome)
       THEN /\ apiReqs' = apiReqs + 1
            /\ UNCHANGED <<apiPc, outstanding, apiResult, cacheVars>>
       ELSE LET r == ResultOf(apiFn, outcome, requestsJsonError)
            IN  /\ apiPc' = "returned"
                /\ outstanding' = outstanding - 1
                /\ apiResult' = [outcome |-> outcome, result |-> r]
                /\ featuresCache' =
                       IF apiFn = "fetch_available_features" /\ IsNone(r.raised)
                       THEN Some(r.value) ELSE featuresCache
                /\ savedCache' =
                       IF apiFn = "fetch_saved_graphs" /\ IsNone(r.raised)
                       THEN Some(r.value) ELSE savedCache
                /\ UNCHANGED apiReqs
    /\ UNCHANGED <<apiFn, sessionVars, genVars, rng, draws, requestsJsonError>>

ApiReturn ==
    /\ apiPc = "returned"
    /\ apiPc' = "idle"
    /\ UNCHANGED <<apiFn, apiReqs, outstanding, apiResult, sessionVars,
                   cacheVars, genVars, rng, draws, requestsJsonError>>

\* A cache entry's ttl (300 s, 60 s) runs out.
CacheExpire ==
    /\ \/ featuresCache' = None /\ ~IsNone(featuresCache) /\ UNCHANGED savedCache
       \/ savedCache' = None /\ ~IsNone(savedCache) /\ UNCHANGED featuresCache
    /\ UNCHANGED <<sessionVars, genVars, apiVars, rng, draws, requestsJsonError>>

(***************************************************************************)
(* The Playground script.  Streamlit runs it from the top once per user    *)
(* event (a button press, or just opening the page); a button can be       *)
(* pressed only if the last run drew it.                                   *)
(***************************************************************************)
\* PRESETS: each preset's value for each backend field, as a decimal literal.
PRESETS(preset) ==
    CASE preset = "USA (2022)" ->
              ("Population" :> "331900000")
           @@ ("GDP_per_capita" :> "70248")
           @@ ("Trade_union_density" :> "10.3")
           @@ ("Unemployment_rate" :> "3.6")
           @@ ("Health" :> "8.8")
           @@ ("Education" :> "6.0")
           @@ ("Housing" :> "5.6")
           @@ ("Community_development" :> "7.2")
           @@ ("Productivity" :> "68.4")
           @@ ("Real_interest_rates" :> "2.4")
           @@ ("Corporate_tax_rate" :> "21.0")
           @@ ("Inflation" :> "8.0")
           @@ ("Personal_property_tax" :> "12.0")
           @@ ("IRLT" :> "0.42")
      [] preset = "France (2022)" ->
              ("Population" :> "67750000")
           @@ ("GDP_per_capita" :> "42330")
           @@ ("Trade_union_density" :> "7.7")
           @@ ("Unemployment_rate" :> "7.3")
           @@ ("Health" :> "9.5")
           @@ ("Education" :> "5.5")
           @@ ("Housing" :> "6.8")
           @@ ("Community_development" :> "8.1")
           @@ ("Productivity" :> "67.1")
           @@ ("Real_interest_rates" :> "1.8")
           @@ ("Corporate_tax_rate" :> "25.0")
           @@ ("Inflation" :> "5.2")
           @@ ("Personal_property_tax" :> "18.5")
           @@ ("IRLT" :> "0.32")
      [] preset = "Germany (2022)" ->
              ("Population" :> "83200000")
           @@ ("GDP_per_capita" :> "48720")
           @@ ("Trade_union_density" :> "16.7")
           @@ ("Unemployment_rate" :> "3.1")
           @@ ("Health" :> "9.7")
           @@ ("Education" :> "4.9")
           @@ ("Housing" :> "6.2")
           @@ ("Community_development" :> "8.3")
           @@ ("Productivity" :> "71.9")
           @@ ("Real_interest_rates" :> "1.5")
           @@ ("Corporate_tax_rate" :> "29.9")
           @@ ("Inflation" :> "6.9")
           @@ ("Personal_property_tax" :> "14.8")
           @@ ("IRLT" :> "0.29")

\* The fourteen feature inputs: the key and the hardcoded default of each
\* get_default_value call, in page order.
FeatureInputs ==
    <<<<"Population", "300000000">>,
      <<"GDP_per_capita", "50000">>,
      <<"Trade_union_density", "10.5">>,
      <<"Unemployment_rate", "5.2">>,
      <<"Health", "8.0">>,
      <<"Education", "7.5">>,
      <<"Housing", "6.8">>,
      <<"Community_development", "7.2">>,
      <<"Productivity", "95.0">>,
      <<"Real_interest_rates", "2.5">>,
      <<"Corporate_tax_rate", "21">>,
      <<"Inflation", "2.1">>,
      <<"Personal_property_tax", "15">>,
      <<"IRLT", "0.0">>>>

\* The keys the Save handler looks up in FEATURE_MAPPING, in the order of the
\* dict display at lines 453-467.
SaveLookupKeys_displayNames == FeatureDisplayNames

SaveLookupKeys ==
    <<"Population", "GDP_per_capita", "Trade_union_density",
      "Unemployment rate", "Health", "Education", "Housing",
      "Community development", "Productivity", "Real interest rates",
      "Corporate_tax_rate", "Inflation", "Personal/property tax", "IRLT">>

RegionFields ==
    {"Region_East_Asia_and_Pacific", "Region_Europe_and_Central_Asia",
     "Region_Latin_America_and_Caribbean",
     "Region_Middle_East_and_North_Africa"}

\* The limits of the Steps input.
steps_min_value == 5
steps_max_value == 100

\* What the user can have in the inputs when pressing a button.
MaxPick == 1
PageRanges == {<<0, 100>>, <<50, 10>>, <<10, 10>>}
PresetInputs == {"USA (2022)", "France (2022)"}
PageSteps == {steps_min_value}
GraphNameInputs == {"", "My Graph"}
UserIds == {"42"}

Widgets(compare_feature, x_min, x_max, steps, graph_name) ==
    [compare_feature |-> compare_feature, x_min |-> x_min, x_max |-> x_max,
     steps |-> steps, graph_name |-> graph_name]

NoWidgets == Widgets("", 0, 0, 0, "")

\* The record of a script run: the event that started it, the inputs it
\* read, the requests it sent, the generator calls it made, the message its
\* handler showed, the exception that ended it (None if none), the labels of
\* the saved graphs it listed, and the outcome of its feature fetch.
RunLog(event, w, gets, posts, generated, message, fault, labels, featuresOutcome) ==
    [event |-> event, w |-> w, gets |-> gets, posts |-> posts,
     generated |-> generated, message |-> message, fault |-> fault,
     labels |-> labels, featuresOutcome |-> featuresOutcome]

NoRun == RunLog("none", NoWidgets, <<>>, <<>>, <<>>, "", None, <<>>, None)

Gate_noUserIdCheck == IF ~authenticated THEN "login" ELSE "ok"

\* Lines 194-208: "login" or "userid" when the script stops there.
Gate ==
    IF ~authenticated THEN "login"
    ELSE IF IsNone(UserID) \/ Get(UserID) = "" THEN "userid"
    ELSE "ok"

\* [backend_to_display.get(f, f) for f in backend_features]
DisplayFeatures(backend_features) ==
    [i \in DOMAIN backend_features |-> BackendToDisplay(backend_features[i])]

\* Lines 210-227 with the request's outcome o: the cached call of
\* fetch_available_features and the list stored in the session.
FeaturesStep(o) ==
    IF ~IsNone(available_features)
    THEN [fault |-> None, available |-> available_features,
          fcache |-> featuresCache, gets |-> <<>>, outcome |-> None]
    ELSE LET hit == ~IsNone(featuresCache)
             r == IF hit THEN [raised |-> None, value |-> Get(featuresCache)]
                  ELSE fetch_available_features(o, requestsJsonError)
             backend_features == r.value
         IN  [fault |-> r.raised,
              available |->
                  IF ~IsNone(r.raised) THEN None
                  ELSE IF ~IsNone(backend_features) /\ Get(backend_features) # <<>>
                  THEN Some(DisplayFeatures(Get(backend_features)))
                  ELSE Some(FallbackFeatures),
              fcache |-> IF hit \/ ~IsNone(r.raised) THEN featuresCache
                         ELSE Some(r.value),
              gets |-> IF hit THEN <<>> ELSE <<"/playground/features">>,
              outcome |-> IF hit THEN None ELSE Some(o)]

\* Line 254 with the request's outcome o: the cached call of fetch_saved_graphs.
SavedStep(o) ==
    LET hit == ~IsNone(savedCache)
        r == IF hit THEN [raised |-> None, value |-> Get(savedCache)]
             ELSE fetch_saved_graphs(o, requestsJsonError)
    IN  [fault |-> r.raised, saved |-> r.value,
         scache |-> IF hit \/ ~IsNone(r.raised) THEN savedCache
                    ELSE Some(r.value),
         gets |-> IF hit THEN <<>> ELSE <<"/playground/saved">>]

\* f"{graph['name']} ({graph['date_saved'][:10] if graph['date_saved'] else 'Unknown'})"
Label(graph) ==
    <<graph.name,
      IF IsNone(graph.date_saved) THEN "Unknown" ELSE Get(graph.date_saved)>>

Labels(saved_graphs) == [i \in DOMAIN saved_graphs |-> Label(saved_graphs[i])]

\* graph_names.index(selected_graph)
IndexOf(seq, x) ==
    CHOOSE i \in DOMAIN seq : seq[i] = x /\ \A j \in 1..(i - 1) : seq[j] # x

\* get_default_value, with the loaded graph and the preset of the session
get_default_value(loaded, preset, feature_key, fallback_default) ==
    IF ~IsNone(loaded) /\ ~IsNone(Get(loaded).features)
    THEN IF feature_key \in DOMAIN Get(Get(loaded).features)
         THEN Get(Get(loaded).features)[feature_key]
         ELSE fallback_default
    ELSE IF ~IsNone(preset)
    THEN IF feature_key \in DOMAIN PRESETS(Get(preset))
         THEN PRESETS(Get(preset))[feature_key]
         ELSE fallback_default
    ELSE fallback_default

\* The values of the fourteen feature inputs, in page order.
FeatureValues(loaded, preset) ==
    [i \in DOMAIN FeatureInputs |->
        get_default_value(loaded, preset, FeatureInputs[i][1], FeatureInputs[i][2])]

\* Line 421: st.number_input raises when its value is outside
\* [min_value, max_value].
WidgetFault(loaded) ==
    /\ ~IsNone(loaded)
    /\ Get(loaded).x_steps \notin steps_min_value..steps_max_value

\* The buttons a run draws that gets through the whole script.
SidebarButtons(labels) ==
    {"Logout"} \cup (IF labels # <<>> THEN {"Load"} ELSE {})

AllButtons(labels, gdata) ==
    SidebarButtons(labels) \cup {"ApplyPreset", "Generate", "Clear"}
        \cup (IF ~IsNone(gdata) THEN {"Save"} ELSE {})

\* The buttons drawn by a run without event over the given session state
\* (the run st.rerun() starts), and the exception that ends it, if any.
RerunButtons(labels, loaded, gdata) ==
    IF WidgetFault(loaded) THEN SidebarButtons(labels) \cup {"ApplyPreset"}
    ELSE AllButtons(labels, gdata)

RerunFault(loaded) ==
    IF WidgetFault(loaded) THEN Some("StreamlitAPIException") ELSE None

\* Whether the Generate handler rejects its inputs (lines 427-430): the
\* message it shows, "" when it goes on to generate.
GenerateRejection_none(x_min, x_max, steps) == ""

GenerateRejection_equalAllowed(x_min, x_max, steps) ==
    IF x_min > x_max THEN "Min value must be less than Max value!"
    ELSE IF steps < 5 THEN "Steps must be at least 5!"
    ELSE ""

GenerateRejection(x_min, x_max, steps) ==
    IF x_min >= x_max THEN "Min value must be less than Max value!"
    ELSE IF steps < 5 THEN "Steps must be at least 5!"
    ELSE ""

\* The request body save_graph_to_backend builds (lines 41-49) from the
\* handler's arguments (lines 453-484).
SaveBody(user_id, w, values) ==
    [user_id |-> user_id, name |-> w.graph_name,
     x_axis |-> IF InFeatureMapping(w.compare_feature)
                THEN FEATURE_MAPPING(w.compare_feature)
                ELSE w.compare_feature,
     x_min |-> w.x_min, x_max |-> w.x_max, x_steps |-> w.steps,
     fields |->
         [k \in {FEATURE_MAPPING(SaveLookupKeys[i]) : i \in DOMAIN SaveLookupKeys}
                    \cup RegionFields |->
             IF k \in RegionFields THEN "0"
             ELSE values[CHOOSE i \in DOMAIN SaveLookupKeys :
                             FEATURE_MAPPING(SaveLookupKeys[i]) = k]]]

(***************************************************************************)
(* Initial states and specifications                                       *)
(***************************************************************************)
\* A fresh browser session: st.session_state is empty, nothing is cached.
InitSession ==
    /\ authenticated = FALSE
    /\ UserID = None
    /\ graph_data = None
    /\ available_features = None
    /\ loaded_graph = None
    /\ selected_preset = None
    /\ page = "Home"
    /\ rendered = {"Login"}
    /\ run = NoRun

InitRest ==
    /\ featuresCache = None
    /\ savedCache = None
    /\ rng = Unseeded
    /\ draws = 0
    /\ genLast = None
    /\ genRef = None
    /\ apiPc = "idle"
    /\ apiFn = "fetch_available_features"
    /\ apiReqs = 0
    /\ outstanding = 0
    /\ apiResult = [outcome |-> NoOutcome,
                    result |-> [raised |-> None, value |-> None]]
    /\ requestsJsonError \in JsonErrorClasses

Init == InitSession /\ InitRest


\* The session state and caches a run leaves, the buttons it drew and its log.
After(auth, uid, gdata, avail, loaded, preset, pg, buttons, fcache, scache, log, reseeded) ==
    [authenticated |-> auth, UserID |-> uid, graph_data |-> gdata,
     available_features |-> avail, loaded_graph |-> loaded,
     selected_preset |-> preset, page |-> pg, rendered |-> buttons,
     featuresCache |-> fcache, savedCache |-> scache, run |-> log,
     reseeded |-> reseeded]

\* One run of the script, top to bottom, started by `event` with the inputs
\* w, the saved-graph label and the preset selected in the select boxes, and
\* o1, o2, o3 the outcomes of the requests it may send (features, saved
\* graphs, save).  A handler that ends in st.rerun() is followed by the run
\* it starts.
ScriptRun(event, w, label, preset, o1, o2, o3) ==
    IF Gate # "ok"
    THEN \* lines 195-208: st.stop()
         After(authenticated, UserID, graph_data, available_features,
               loaded_graph, selected_preset, "Playground", {"GoHome"},
               featuresCache, savedCache,
               RunLog(event, NoWidgets, <<>>, <<>>, <<>>,
                      IF Gate = "login" THEN "Please log in first!"
                      ELSE "User ID not found in session. Please log in again.",
                      None, <<>>, None),
               FALSE)
    ELSE
    LET fs == FeaturesStep(o1)
    IN
    IF ~IsNone(fs.fault)
    THEN After(authenticated, UserID, graph_data, available_features,
               loaded_graph, selected_preset, "Playground", {},
               fs.fcache, savedCache,
               RunLog(event, NoWidgets, fs.gets, <<>>, <<>>, "", fs.fault,
                      <<>>, fs.outcome),
               FALSE)
    ELSE IF event = "Logout"
    THEN \* lines 243-248: every key deleted, then the home page
         After(FALSE, None, None, None, None, None, "Home", {"Login"},
               fs.fcache, savedCache,
               RunLog(event, NoWidgets, fs.gets, <<>>, <<>>,
                      "Logged out successfully!", None, <<>>, fs.outcome),
               FALSE)
    ELSE
    LET sv == SavedStep(o2)
        gets == fs.gets \o sv.gets
        labels == Labels(sv.saved)
        user_id == Get(UserID)
    IN
    IF ~IsNone(sv.fault)
    THEN After(authenticated, UserID, graph_data, fs.available,
               loaded_graph, selected_preset, "Playground", {"Logout"},
               fs.fcache, sv.scache,
               RunLog(event, NoWidgets, gets, <<>>, <<>>, "", sv.fault, <<>>,
                      fs.outcome),
               FALSE)
    ELSE IF event = "Load" /\ label \in Range(labels)
    THEN \* lines 262-272
         LET selected_graph_data == sv.saved[IndexOf(labels, label)]
         IN  After(authenticated, UserID, graph_data, fs.available,
                   Some(selected_graph_data), None, "Playground",
                   RerunButtons(labels, Some(selected_graph_data), graph_data),
                   fs.fcache, sv.scache,
                   RunLog(event, NoWidgets, gets, <<>>, <<>>, "Loaded graph",
                          RerunFault(Some(selected_graph_data)), labels,
                          fs.outcome),
                   FALSE)
    ELSE IF event = "ApplyPreset"
    THEN \* lines 316-320
         After(authenticated, UserID, graph_data, fs.available, loaded_graph,
               Some(preset), "Playground",
               RerunButtons(labels, loaded_graph, graph_data),
               fs.fcache, sv.scache,
               RunLog(event, NoWidgets, gets, <<>>, <<>>, "Applied preset",
                      RerunFault(loaded_graph), labels, fs.outcome),
               FALSE)
    ELSE IF WidgetFault(loaded_graph)
    THEN \* line 421 raises: nothing below it is drawn or handled
         After(authenticated, UserID, graph_data, fs.available, loaded_graph,
               selected_preset, "Playground",
               SidebarButtons(labels) \cup {"ApplyPreset"},
               fs.fcache, sv.scache,
               RunLog(event, NoWidgets, gets, <<>>, <<>>, "",
                      Some("StreamlitAPIException"), labels, fs.outcome),
               FALSE)
    ELSE IF event = "Generate"
    THEN \* lines 426-444
         IF GenerateRejection(w.x_min, w.x_max, w.steps) # ""
         THEN After(authenticated, UserID, graph_data, fs.available,
                    loaded_graph, selected_preset, "Playground",
                    AllButtons(labels, graph_data), fs.fcache, sv.scache,
                    RunLog(event, w, gets, <<>>, <<>>,
                           GenerateRejection(w.x_min, w.x_max, w.steps), None,
                           labels, fs.outcome),
                    FALSE)
         ELSE LET out == generate_fake_gini_data(rng, w.compare_feature,
                                                 w.x_min, w.x_max, w.steps)
                  gdata == Some([x_values |-> out.x_values,
                                 y_values |-> out.y_values,
                                 feature_name |-> w.compare_feature])
              IN  After(authenticated, UserID, gdata, fs.available,
                        loaded_graph, selected_preset, "Playground",
                        AllButtons(labels, gdata), fs.fcache, sv.scache,
                        RunLog(event, w, gets, <<>>,
                               <<GenArgs(w.compare_feature, w.x_min, w.x_max,
                                         w.steps)>>,
                               "Graph generated successfully!", None, labels,
                               fs.outcome),
                        TRUE)
    ELSE IF event = "Save" /\ ~IsNone(graph_data) /\ w.graph_name # ""
    THEN \* lines 451-491
         IF \E i \in DOMAIN SaveLookupKeys : ~InFeatureMapping(SaveLookupKeys[i])
         THEN \* FEATURE_MAPPING[key] raises KeyError while feature_values
              \* is being built
              After(authenticated, UserID, graph_data, fs.available,
                    loaded_graph, selected_preset, "Playground",
                    AllButtons(labels, graph_data) \ {"Clear"},
                    fs.fcache, sv.scache,
                    RunLog(event, w, gets, <<>>, <<>>, "", Some("KeyError"),
                           labels, fs.outcome),
                    FALSE)
         ELSE LET body == SaveBody(user_id, w,
                                   FeatureValues(loaded_graph, selected_preset))
                  r == save_graph_to_backend(o3, requestsJsonError)
              IN  IF ~IsNone(r.raised)
                  THEN After(authenticated, UserID, graph_data, fs.available,
                             loaded_graph, selected_preset, "Playground",
                             AllButtons(labels, graph_data) \ {"Clear"},
                             fs.fcache, sv.scache,
                             RunLog(event, w, gets, <<body>>, <<>>, "",
                                    r.raised, labels, fs.outcome),
                             FALSE)
                  ELSE After(authenticated, UserID, graph_data, fs.available,
                             loaded_graph, selected_preset, "Playground",
                             AllButtons(labels, graph_data),
                             \* st.cache_data.clear() on success
                             IF r.success THEN None ELSE fs.fcache,
                             IF r.success THEN None ELSE sv.scache,
                             RunLog(event, w, gets, <<body>>, <<>>,
                                    IF r.success THEN "saved successfully!"
                                    ELSE IF ~IsNone(r.payload.error)
                                    THEN Get(r.payload.error)
                                    ELSE "Unknown error",
                                    None, labels, fs.outcome),
                             FALSE)
    ELSE IF event = "Clear"
    THEN \* lines 494-498
         After(authenticated, UserID, None, fs.available, None,
               selected_preset, "Playground",
               RerunButtons(labels, None, None), fs.fcache, sv.scache,
               RunLog(event, NoWidgets, gets, <<>>, <<>>, "", None, labels,
                      fs.outcome),
               FALSE)
    ELSE \* no handler runs: the page is drawn
         After(authenticated, UserID, graph_data, fs.available, loaded_graph,
               selected_preset, "Playground", AllButtons(labels, graph_data),
               fs.fcache, sv.scache,
               RunLog(event, w, gets, <<>>, <<>>, "", None, labels,
                      fs.outcome),
               FALSE)

\* The step of the session a run makes.
Becomes(n) ==
    /\ authenticated' = n.authenticated
    /\ UserID' = n.UserID
    /\ graph_data' = n.graph_data
    /\ available_features' = n.available_features
    /\ loaded_graph' = n.loaded_graph
    /\ selected_preset' = n.selected_preset
    /\ page' = n.page
    /\ rendered' = n.rendered
    /\ featuresCache' = n.featuresCache
    /\ savedCache' = n.savedCache
    /\ run' = n.run
    /\ IF n.reseeded THEN rng' = Unseeded /\ draws' = 0
       ELSE UNCHANGED <<rng, draws>>
    /\ UNCHANGED <<genVars, apiVars, requestsJsonError>>

NoLabel == <<"", "">>

\* The outcomes of its requests the page is run against.
PageFeaturesOutcomes ==
    {Timeout, ConnectionError, Response(500, None), NotJsonResponse(200)}
        \cup {Response(200, Some(l)) : l \in FeatureLists}

PageSavedOutcomes ==
    {Timeout, Response(404, None), NotJsonResponse(200)}
        \cup {Response(200, Some(l)) : l \in SavedLists}

PageSaveOutcomes ==
    {Timeout, NotJsonResponse(201)}
        \cup {Response(s, Some(b)) : s \in {201, 500}, b \in SaveBodies}

\* The outcomes to consider for a request: all of them when the run sends
\* it, one (never looked at) when it does not.
FeaturesOutcomesNow ==
    IF Gate = "ok" /\ IsNone(available_features) /\ IsNone(featuresCache)
    THEN PageFeaturesOutcomes ELSE {Timeout}

SavedOutcomesNow ==
    IF Gate = "ok" /\ IsNone(savedCache) THEN PageSavedOutcomes ELSE {Timeout}

SaveOutcomesNow ==
    IF \A i \in DOMAIN SaveLookupKeys : InFeatureMapping(SaveLookupKeys[i])
    THEN PageSaveOutcomes ELSE {Timeout}

\* The page is opened (sidebar link, reload): a run with no button pressed.
VisitPlayground ==
    \E o1 \in FeaturesOutcomesNow, o2 \in SavedOutcomesNow :
        Becomes(ScriptRun("none", NoWidgets, NoLabel, "", o1, o2, Timeout))

Pressable(button) == page = "Playground" /\ button \in rendered

Logout ==
    /\ Pressable("Logout")
    /\ \E o1 \in FeaturesOutcomesNow :
           Becomes(ScriptRun("Logout", NoWidgets, NoLabel, "", o1, Timeout,
                             Timeout))

LoadGraph ==
    /\ Pressable("Load")
    /\ \E label \in Range(run.labels), o1 \in FeaturesOutcomesNow,
          o2 \in SavedOutcomesNow :
           Becomes(ScriptRun("Load", NoWidgets, label, "", o1, o2, Timeout))

ApplyPreset ==
    /\ Pressable("ApplyPreset")
    /\ \E p \in PresetInputs, o1 \in FeaturesOutcomesNow,
          o2 \in SavedOutcomesNow :
           Becomes(ScriptRun("ApplyPreset", NoWidgets, NoLabel, p, o1, o2,
                             Timeout))

\* The inputs of the right-hand column: a feature among the first MaxPick
\* offered, a range, a step count the input allows, a graph name.
WidgetInputs(names) ==
    LET offered == Get(available_features)
    IN  {Widgets(offered[i], r[1], r[2], s, g) :
            i \in 1..Min(MaxPick, Len(offered)), r \in PageRanges,
            s \in PageSteps, g \in names}

Generate ==
    /\ Pressable("Generate")
    /\ \E w \in WidgetInputs({""}), o1 \in FeaturesOutcomesNow,
          o2 \in SavedOutcomesNow :
           Becomes(ScriptRun("Generate", w, NoLabel, "", o1, o2, Timeout))

SaveGraph ==
    /\ Pressable("Save")
    /\ \E w \in WidgetInputs(GraphNameInputs), o1 \in FeaturesOutcomesNow,
          o2 \in SavedOutcomesNow, o3 \in SaveOutcomesNow :
           Becomes(ScriptRun("Save", w, NoLabel, "", o1, o2, o3))

ClearGraph ==
    /\ Pressable("Clear")
    /\ \E o1 \in FeaturesOutcomesNow, o2 \in SavedOutcomesNow :
           Becomes(ScriptRun("Clear", NoWidgets, NoLabel, "", o1, o2, Timeout))

\* The home page is opened (the "Go to Home Page" button, the sidebar): it
\* sets authenticated to False (97_Paulo_Homepage.py, line 24).
VisitHome ==
    /\ authenticated' = FALSE
    /\ page' = "Home"
    /\ rendered' = {"Login"}
    /\ run' = NoRun
    /\ UNCHANGED <<UserID, graph_data, available_features, loaded_graph,
                   selected_preset, cacheVars, genVars, apiVars, rng, draws,
                   requestsJsonError>>

\* Logging in on the home page sets `authenticated` and `UserID`; a login
\* that leaves UserID unset or empty is let through to the gate.
Login ==
    /\ page = "Home"
    /\ authenticated' = TRUE
    /\ UserID' \in {Some(u) : u \in UserIds} \cup {None, Some("")}
    /\ UNCHANGED <<graph_data, available_features, loaded_graph,
                   selected_preset, page, rendered, run, cacheVars, genVars,
                   apiVars, rng, draws, requestsJsonError>>

Next ==
    \/ VisitPlayground
    \/ Logout
    \/ LoadGraph
    \/ ApplyPreset
    \/ Generate
    \/ SaveGraph
    \/ ClearGraph
    \/ VisitHome
    \/ Login
    \/ CacheExpire

Spec == Init /\ [][Next]_vars

\* The generator called directly, over all its arguments.
NextGen ==
    \/ \E f \in GenNames, r \in GenRanges, n \in GenSteps :
           GenCall(f, r[1], r[2], n)
    \/ UnrelatedDraw

SpecGen == Init /\ [][NextGen]_vars

\* The client functions called one at a time.
NextApi ==
    \/ \E fn \in ApiFunctions : ApiCall(fn)
    \/ \E o \in OutcomesOf(apiFn) : ApiRespond(o)
    \/ ApiReturn
    \/ CacheExpire

SpecApi == Init /\ [][NextApi]_vars

(***************************************************************************)
(* Properties of the generator (checked under SpecGen)                     *)
(***************************************************************************)
LastArgs == Get(genLast).args
LastOut == Get(genLast).out

\* The curve of the last call is well formed: both sequences have `steps`
\* points, x starts at x_min, ends at x_max, never decreases and is evenly
\* spaced, and every y is within [0.2, 0.6].
WellFormed(args, out) ==
    /\ Len(out.x_values) = args.steps
    /\ Len(out.y_values) = args.steps
    /\ out.x_values[1] = args.x_min * Den(args.steps)
    /\ out.x_values[args.steps] = args.x_max * Den(args.steps)
    /\ \A i \in 1..(args.steps - 1) : out.x_values[i] <= out.x_values[i + 1]
    /\ \A i \in 1..(args.steps - 1) :
           out.x_values[i + 1] - out.x_values[i] = out.x_values[2] - out.x_values[1]
    /\ \A i \in 1..args.steps :
           /\ out.y_values[i] >= 200 * Den(args.steps)
           /\ out.y_values[i] <= 600 * Den(args.steps)

\* C8 as stated: for x_min < x_max and steps >= 1, the curve is well formed.
C8_WellFormedFromOneStep ==
    (~IsNone(genLast) /\ LastArgs.x_min < LastArgs.x_max /\ LastArgs.steps >= 1)
        => WellFormed(LastArgs, LastOut)

\* C8 amended: for x_min < x_max and steps >= 2, the curve is well formed; a
\* curve of one step is the single point x_min, with its y in [0.2, 0.6].
C8_WellFormedFromTwoSteps ==
    (~IsNone(genLast) /\ LastArgs.x_min < LastArgs.x_max)
        => /\ LastArgs.steps >= 2 => WellFormed(LastArgs, LastOut)
           /\ LastArgs.steps = 1 =>
                  /\ LastOut.x_values = <<LastArgs.x_min>>
                  /\ Len(LastOut.y_values) = 1
                  /\ LastOut.y_values[1] \in 200..600

C8_Witness ==
    /\ ~IsNone(genLast)
    /\ LastArgs.x_min < LastArgs.x_max
    /\ LastArgs.steps >= 2
    /\ \E i \in 1..LastArgs.steps : LastOut.raw[i] # LastOut.y_values[i]

\* C9: two calls with the same four arguments return the same x- and
\* y-sequences, whatever was called or drawn in between, and the seed of a
\* call is the seed of any other call with the same arguments.
C9_Deterministic ==
    (~IsNone(genLast) /\ ~IsNone(genRef) /\ Get(genRef).args = LastArgs)
        => /\ Get(genRef).out.x_values = LastOut.x_values
           /\ Get(genRef).out.y_values = LastOut.y_values
           /\ Get(genRef).out.seed = LastOut.seed

C9_Witness ==
    /\ ~IsNone(genLast)
    /\ ~IsNone(genRef)
    /\ Get(genRef).args = LastArgs
    /\ LastArgs.steps >= 2
    /\ LastArgs.x_min < LastArgs.x_max
    /\ draws > 0

\* The slope the stated priority order gives a name, in thousandths.
HasGDP(n) == NameHas(n, <<"G", "D", "P">>)
HasCapita(n) == NameHas(n, <<"c", "a", "p", "i", "t", "a">>)
HasUnemployment(n) ==
    NameHas(n, <<"U", "n", "e", "m", "p", "l", "o", "y", "m", "e", "n", "t">>)
HasEducation(n) == NameHas(n, <<"E", "d", "u", "c", "a", "t", "i", "o", "n">>)
HasHealth(n) == NameHas(n, <<"H", "e", "a", "l", "t", "h">>)

StatedSlope(n) ==
    CASE HasGDP(n) \/ HasCapita(n) -> -150
      [] ~(HasGDP(n) \/ HasCapita(n)) /\ HasUnemployment(n) -> 120
      [] ~(HasGDP(n) \/ HasCapita(n)) /\ ~HasUnemployment(n)
             /\ (HasEducation(n) \/ HasHealth(n)) -> -100
      [] OTHER -> 80

\* C10: before clamping, every y of the last call is
\* 0.35 + slope * (x - x_min) / (x_max - x_min) + noise, with the slope the
\* first matching rule gives (the equation is multiplied through by
\* 1000 * Den(steps) * (x_max - x_min)).
C10_ShapeByFirstMatchingRule ==
    (~IsNone(genLast) /\ LastArgs.x_min # LastArgs.x_max)
        => \A i \in 1..LastArgs.steps :
               LastOut.raw[i] * (LastArgs.x_max - LastArgs.x_min)
                 = 350 * Den(LastArgs.steps) * (LastArgs.x_max - LastArgs.x_min)
                   + StatedSlope(LastArgs.feature_name)
                       * (LastOut.x_values[i] - LastArgs.x_min * Den(LastArgs.steps))
                   + LastOut.noise[i] * Den(LastArgs.steps)
                       * (LastArgs.x_max - LastArgs.x_min)

\* A name that matches two rules has taken the first.
C10_Witness ==
    /\ ~IsNone(genLast)
    /\ LastArgs.feature_name = "Unemployment capita"
    /\ LastArgs.x_min < LastArgs.x_max
    /\ LastArgs.steps = MaxSteps
    /\ LastOut.raw[LastArgs.steps] - LastOut.noise[LastArgs.steps] * Den(LastArgs.steps)
           = (350 - 150) * Den(LastArgs.steps)

(***************************************************************************)
(* Properties of the page (checked under Spec)                             *)
(***************************************************************************)

\* The run got as far as reading the inputs of the right-hand column (lines
\* 398-421), below which the handlers of Generate, Save and Clear stand.
InputsRead == run.w # NoWidgets

GenerateInputsValid(args) ==
    /\ args.x_min < args.x_max
    /\ args.steps >= 5
    /\ args.steps <= 100

\* C2: the generator is only ever called from the page with x_min < x_max
\* and 5 <= steps <= 100; and a Generate press whose handler finds
\* x_min >= x_max or steps < 5 in the inputs calls no generator, shows an error message and leaves
\* graph_data, loaded_graph, selected_preset and available_features as
\* they were.
C2_GenerateValidates ==
    /\ [](\A i \in DOMAIN run.generated : GenerateInputsValid(run.generated[i]))
    /\ [][(/\ run'.event = "Generate"
           /\ run'.w # NoWidgets
           /\ run'.w.x_min >= run'.w.x_max \/ run'.w.steps < 5)
          => (/\ run'.generated = <<>>
              /\ run'.message \in {"Min value must be less than Max value!",
                                   "Steps must be at least 5!"}
              /\ graph_data' = graph_data
              /\ loaded_graph' = loaded_graph
              /\ selected_preset' = selected_preset
              /\ available_features' = available_features)]_vars

\* A Generate press was rejected while a curve, a loaded graph and a preset
\* were in the session.
C2_Witness ==
    /\ run.event = "Generate"
    /\ run.w.x_min >= run.w.x_max
    /\ run.message = "Min value must be less than Max value!"
    /\ ~IsNone(graph_data)
    /\ ~IsNone(selected_preset)

FetchFailed(outcome) ==
    \/ outcome.kind \in {"timeout", "connection"}
    \/ outcome.kind = "response" /\ outcome.status # 200

\* C3: after a run whose feature fetch failed (timeout, connection error or
\* a status other than 200), available_features is the list of the 14
\* display names of FEATURE_MAPPING, in the order of the dict.
C3_FetchFailureGivesFallback ==
    (~IsNone(run.featuresOutcome) /\ FetchFailed(Get(run.featuresOutcome)))
        => /\ available_features = Some(FeatureDisplayNames)
           /\ Len(Get(available_features)) = 14

C3_Witness ==
    /\ run.featuresOutcome = Some(Timeout)
    /\ available_features = Some(FeatureDisplayNames)

\* C4 as stated: a Save Graph press with a graph name, a curve and a valid
\* range ends without exception and has sent exactly one POST, whose body
\* holds user_id, name, x_axis (the backend name of the compared feature),
\* x_min, x_max, x_steps, the 14 backend fields and the four region fields
\* set to 0.
C4_SaveSendsOneWellFormedPost ==
    (/\ run.event = "Save"
     /\ InputsRead
     /\ run.w.graph_name # ""
     /\ run.w.x_min < run.w.x_max
     /\ ~IsNone(graph_data))
        => /\ IsNone(run.fault)
           /\ Len(run.posts) = 1
           /\ LET body == run.posts[1]
              IN  /\ body.user_id = Get(UserID)
                  /\ body.name = run.w.graph_name
                  /\ body.x_axis =
                         (IF InFeatureMapping(run.w.compare_feature)
                          THEN FEATURE_MAPPING(run.w.compare_feature)
                          ELSE run.w.compare_feature)
                  /\ body.x_min = run.w.x_min
                  /\ body.x_max = run.w.x_max
                  /\ body.x_steps = run.w.steps
                  /\ DOMAIN body.fields = Range(FeatureBackendNames) \cup RegionFields
                  /\ \A k \in RegionFields : body.fields[k] = "0"

(***************************************************************************)
(* Properties of the client functions (checked under SpecApi)              *)
(***************************************************************************)
Returned(fn) == apiPc = "returned" /\ apiFn = fn /\ apiReqs >= 1

\* C5 as stated: save_graph_to_backend never raises; success is true exactly
\* when the backend answered 201; a transport failure gives success = false
\* and a payload with an error message; any other status gives
\* success = false.
C5_SaveNeverRaisesSuccessIff201 ==
    Returned("save_graph_to_backend")
        => LET o == apiResult.outcome
               r == apiResult.result
           IN  /\ IsNone(r.raised)
               /\ r.success <=> (o.kind = "response" /\ o.status = 201)
               /\ o.kind # "response"
                      => ~r.success /\ ~IsNone(r.payload.error)
               /\ (o.kind = "response" /\ o.status # 201) => ~r.success

\* C6: whenever the request of fetch_saved_graphs or load_graph_from_backend
\* times out, cannot connect or is answered with a status other than 200,
\* the function returns (the empty list, respectively None) and raises
\* nothing; and it returns a non-empty list, respectively a graph record,
\* only on a 200 response, and then what the response holds.
C6_ReadsFallBackOnFailure ==
    /\ Returned("fetch_saved_graphs")
           => LET o == apiResult.outcome
                  r == apiResult.result
              IN  /\ FetchFailed(o) => IsNone(r.raised) /\ r.value = <<>>
                  /\ r.value # <<>>
                         => /\ o.kind = "response" /\ o.status = 200
                            /\ r.value = Get(o.data)
    /\ Returned("load_graph_from_backend")
           => LET o == apiResult.outcome
                  r == apiResult.result
              IN  /\ FetchFailed(o) => IsNone(r.raised) /\ IsNone(r.value)
                  /\ ~IsNone(r.value)
                         => /\ o.kind = "response" /\ o.status = 200
                            /\ r.value = o.data

C6_Witness ==
    /\ Returned("load_graph_from_backend")
    /\ apiResult.outcome.kind = "response"
    /\ apiResult.outcome.status = 404
    /\ apiResult.outcome.json
    /\ IsNone(apiResult.result.value)

\* C7: an invocation of a client function sends at most one request, and at
\* most one request is outstanding at any time.
C7_OneRequestPerCall == apiReqs <= 1 /\ outstanding <= 1

\* A call whose request timed out has returned after that one request.
C7_Witness ==
    /\ apiPc = "returned"
    /\ apiReqs = 1
    /\ outstanding = 0
    /\ apiResult.outcome = Timeout

(***************************************************************************)
(* Properties of the session state (checked under Spec)                    *)
(***************************************************************************)

\* C11: graph_data changes only in two ways: it becomes a new curve in a run
\* of Generate Graph whose inputs passed validation (x_min < x_max and
\* 5 <= steps <= 100) and which called the generator, and it becomes None
\* in a run of Clear Graph or Logout.  Every other step (Load Graph, Apply
\* Preset, Save Graph, a rejected Generate, opening a page, logging in)
\* leaves it as it was.
C11_CurveChangesOnlyByGenerateOrClear ==
    [][graph_data' # graph_data
         => \/ /\ run'.event = "Generate"
               /\ Len(run'.generated) = 1
               /\ GenerateInputsValid(run'.generated[1])
               /\ ~IsNone(graph_data')
               /\ Get(graph_data').feature_name = run'.generated[1].feature_name
            \/ /\ run'.event \in {"Clear", "Logout"}
               /\ IsNone(graph_data')]_vars

\* A graph was loaded while the session held a curve, and the curve is
\* still there.
C11_Witness ==
    /\ run.event = "Load"
    /\ ~IsNone(loaded_graph)
    /\ ~IsNone(graph_data)
    /\ IsNone(selected_preset)

\* The default the stated priority gives a feature input: the loaded graph's
\* value for the key when a graph is loaded and has it, otherwise the
\* selected preset's value when a preset is selected and has it, otherwise
\* the hardcoded fallback.
StatedDefault(feature_key, fallback_default) ==
    IF /\ ~IsNone(loaded_graph)
       /\ ~IsNone(Get(loaded_graph).features)
       /\ feature_key \in DOMAIN Get(Get(loaded_graph).features)
    THEN Get(Get(loaded_graph).features)[feature_key]
    ELSE IF /\ ~IsNone(selected_preset)
            /\ feature_key \in DOMAIN PRESETS(Get(selected_preset))
    THEN PRESETS(Get(selected_preset))[feature_key]
    ELSE fallback_default

\* C12 as stated: in every state of the session, whatever Load Graph, Apply
\* Preset and Clear Graph actions led to it, the default of each of the
\* fourteen feature inputs is the one the priority loaded graph > selected
\* preset > hardcoded default gives, key by key; and after a graph has been
\* loaded no preset is selected.
C12_DefaultsFollowPriority ==
    /\ \A i \in DOMAIN FeatureInputs :
           get_default_value(loaded_graph, selected_preset,
                             FeatureInputs[i][1], FeatureInputs[i][2])
               = StatedDefault(FeatureInputs[i][1], FeatureInputs[i][2])
    /\ (run.event = "Load" /\ run.message = "Loaded graph")
           => IsNone(selected_preset)

\* The run sent a backend request or called the generator.
Activity(r) == r.gets # <<>> \/ r.posts # <<>> \/ r.generated # <<>>

LoggedIn == authenticated /\ ~IsNone(UserID) /\ Get(UserID) # ""

\* C13: a run of the page that sends a backend request (features, saved
\* graphs, save) or calls the generator, and a step that stores a curve in
\* graph_data, start only in a state where authenticated is true and UserID
\* is set and not empty; and whenever the last run's log holds such a
\* request or call, the session is still logged in.  So after Logout or a
\* visit of the home page nothing of the kind happens until both are set
\* again.
C13_GateBeforeBackendAndCurve ==
    /\ [](Activity(run) => LoggedIn)
    /\ [][(\/ run' # run /\ Activity(run')
           \/ graph_data' # graph_data /\ ~IsNone(graph_data'))
          => LoggedIn]_vars

\* The page was opened after the home page had been visited, in a session
\* that still holds a curve: the run stopped at the login check.
C13_Witness ==
    /\ page = "Playground"
    /\ ~authenticated
    /\ ~IsNone(graph_data)
    /\ run.message = "Please log in first!"
    /\ ~Activity(run)
=============================================================================
